---- MODULE Spec2Model ----
(***************************************************************************)
(* Model of simple_unix_shell.c: the interpreter's main loop, the pipeline *)
(* engine execute_pipeline, the profiler run_and_profile, the SIGINT relay *)
(* sigint_handler and the child processes they create.                    *)
(*                                                                         *)
(* The interpreter is one thread of control (pc) that a SIGINT handler can *)
(* interrupt between any two steps; the handler is installed with          *)
(* sa_flags = 0, so a blocked waitpid, sleep or read returns early (EINTR) *)
(* when the handler has run.  Children run concurrently.                   *)
(***************************************************************************)
EXTENDS Integers, Sequences, FiniteSets, TLC

\* ---------------------------------------------------------------- bounds
MaxCmds == 1        \* input lines that start a pipeline or a profile call
MaxStages == 2      \* stages of one pipeline
MaxInts == 1        \* SIGINT deliveries to the interpreter in one session
MaxTimeout == 1     \* largest "maxtiempo" argument, in seconds
TicksPerSec == 2    \* clock resolution: ticks in one second
MaxOut == 3         \* writes of a profiled program to the capture file
MaxLen == 4         \* characters of an input line

\* ------------------------------------------------- constants of the platform
SIGINT == 2
SIGKILL == 9
SIGALRM == 14
ExitOk == 0
ExitNotFound == 127
MAX_COMMANDS == 64

\* The wait status the kernel reports, as <sys/wait.h> encodes it.
W_EXITCODE(ret, sig) == ret * 256 + sig
WIFEXITED(s) == (s % 128) = 0
WEXITSTATUS(s) == (s \div 256) % 256

\* ------------------------------------------------------------ descriptors
\* An open descriptor is named by what it refers to: one end of the channel
\* created by call number `call' for stage `ch', the temporary capture file of
\* that call, or the terminal.
Fd(call, ch, end) == [call |-> call, ch |-> ch, end |-> end]
STDIN_FILENO == Fd(0, 0, "tty")
STDOUT_FILENO == Fd(0, 1, "tty")
NoFd == Fd(0, 0, "none")

StageKinds == {"prog", "nosuch", "empty"}
\* How a program can end on its own: exit(0), exit(1), or a signal it raises
\* (abort(), signal 6).
ProgStatuses == {W_EXITCODE(ExitOk, 0), W_EXITCODE(1, 0), W_EXITCODE(0, 6)}

VARIABLES
  pc,             \* where the interpreter is
  current_child,  \* the Foreground Slot (0 = none)
  procs,          \* every process spawned so far, indexed by pid
  pfds,           \* channel and capture descriptors open in the interpreter
  ncall,          \* number of execute_pipeline / run_and_profile calls so far
  commands,       \* execute_pipeline: the stages (their kinds); profile: argv
  i,              \* execute_pipeline: loop index
  in_fd,          \* execute_pipeline: input descriptor of the next stage
  pipefd,         \* execute_pipeline: <<read end, write end>> of this stage
  pids,           \* execute_pipeline: pids[i]; run_and_profile: <<pid>>
  status,         \* wait status variable of the running call
  ret,            \* value the call returned (meaningful at *_ret)
  prof,           \* run_and_profile: arguments and locals
  clock,          \* CLOCK_MONOTONIC, in ticks
  sent,           \* log of kill() calls made by the interpreter
  ints,           \* SIGINT deliveries so far
  files,          \* file system: temporary files and the append target
  why,            \* why the main loop ended
  line,           \* main: the input line, a sequence of characters
  cmdcopies       \* main: the stage texts split_pipeline returned

vars == <<pc, current_child, procs, pfds, ncall, commands, i, in_fd, pipefd,
          pids, status, ret, prof, clock, sent, ints, files, why,
          line, cmdcopies>>

\* before and appended record, for the append of lines 194-206, the target
\* file's content when it was opened and whether it was opened.
NoProf == [save |-> FALSE, timeout |-> 0, tmpfd |-> NoFd, waited |-> 0,
           slept |-> 0, start |-> 0, real |-> 0, exitshown |-> 0,
           killed |-> FALSE, before |-> <<>>, appended |-> FALSE]

\* The file system: tmp, the calls whose capture file exists; target, the
\* content of the append target, a sequence of items; cap and off, the
\* content of the current capture file and the offset of its open file
\* description, which the interpreter's tmpfd and the child's standard output
\* share (fork, dup2 at line 143); wrote, how many writes the child has made.
NoFiles == [tmp |-> {}, target |-> <<>>, cap |-> <<>>, off |-> 0, wrote |-> 0]

\* The items of the target file.
Item(t, cmd, v) == [t |-> t, cmd |-> cmd, v |-> v]
Header(cmd) == Item("header", cmd, 0)
OutByte(b) == Item("out", "", b)
Summary(cmd, exit) == Item("summary", cmd, exit)
Blank == Item("blank", "", 0)
Old == Item("old", "", 0)

Init ==
  /\ pc = "prompt"
  /\ current_child = 0
  /\ procs = <<>>
  /\ pfds = {}
  /\ ncall = 0
  /\ commands = <<>>
  /\ i = 0
  /\ in_fd = STDIN_FILENO
  /\ pipefd = <<NoFd, NoFd>>
  /\ pids = <<>>
  /\ status = 0
  /\ ret = 0
  /\ prof = NoProf
  /\ clock = 0
  /\ sent = <<>>
  /\ ints = 0
  /\ files = NoFiles
  /\ why = "running"
  /\ line = <<>>
  /\ cmdcopies = <<>>


\* ------------------------------------------------------------- processes
\* A process record.  st: "forked" (the child's branch before execvp),
\* "running" (the program), "zombie" (terminated, not yet waited for),
\* "reaped".  stdin/stdout/fds are the descriptors it holds; in_fd and pipefd
\* are the child's copies of the parent's locals at fork().
NewProc(role, kind, last, heldfds, infd, pfd, cap, tmo) ==
  [st |-> "forked", status |-> 0, role |-> role, kind |-> kind, last |-> last,
   stdin |-> STDIN_FILENO, stdout |-> STDOUT_FILENO, fds |-> heldfds,
   in_fd |-> infd, pipefd |-> pfd, save |-> cap, timeout |-> tmo,
   alarm |-> -1]

\* Termination closes every descriptor of the process; what is left of it is
\* its state and its wait status.
Terminated(pr, st) ==
  [pr EXCEPT !.st = "zombie", !.status = st, !.stdin = NoFd, !.stdout = NoFd,
             !.fds = {}, !.in_fd = NoFd, !.pipefd = <<NoFd, NoFd>>,
             !.last = FALSE, !.save = FALSE, !.timeout = 0, !.alarm = -1]

\* When a call returns, its pids[] array and its status variable are gone:
\* the interpreter never again waits for, signals or reads anything of a
\* process of that call.  Such a process is "past": reaped, or left behind
\* (running, or terminated and never waited for) with a further life that no
\* step of the interpreter can observe.
Forget(P) ==
  [p \in DOMAIN P |->
     [st |-> "past", status |-> 0, role |-> "stage", kind |-> "prog",
      last |-> FALSE, stdin |-> NoFd, stdout |-> NoFd, fds |-> {},
      in_fd |-> NoFd, pipefd |-> <<NoFd, NoFd>>, save |-> FALSE,
      timeout |-> 0, alarm |-> -1]]

StateOf(P, p) == IF p \in DOMAIN P THEN P[p].st ELSE "none"

\* kill(p, sig) as the target sees it.  SIGKILL cannot be caught.  SIGINT
\* terminates a program that kept the default disposition (dies) and is
\* handled by one that installed its own; a child still in its branch of fork
\* runs the inherited sigint_handler, whose copy of current_child is 0.
Deliver(P, p, sig, dies) ==
  IF p \notin DOMAIN P THEN P
  ELSE IF P[p].st = "running" /\ (sig = SIGKILL \/ dies)
    THEN [P EXCEPT ![p] = Terminated(@, W_EXITCODE(0, sig))]
  ELSE IF P[p].st = "forked" /\ sig = SIGKILL
    THEN [P EXCEPT ![p] = Terminated(@, W_EXITCODE(0, sig))]
  ELSE P

KillRec(p, sig, by) ==
  [to |-> p, sig |-> sig, by |-> by, at |-> clock, tst |-> StateOf(procs, p)]

\* The child's branch without the exit after a failed execvp (lines 99, 153):
\* the child falls back into the interpreter's code and keeps running.
ChildBranchNoExitAfterExec(pr) ==
  LET a == IF pr.role = "stage" /\ pr.in_fd # STDIN_FILENO
             THEN [pr EXCEPT !.stdin = pr.in_fd, !.fds = @ \ {pr.in_fd}]
             ELSE pr
      b == IF pr.role = "stage" /\ ~pr.last
             THEN [a EXCEPT !.stdout = pr.pipefd[2],
                            !.fds = @ \ {pr.pipefd[1], pr.pipefd[2]}]
             ELSE a
      c == IF pr.role = "prof" /\ pr.save
             THEN [b EXCEPT !.stdout = pr.pipefd[1], !.fds = @ \ {pr.pipefd[1]}]
             ELSE b
  IN  IF pr.role = "stage" /\ pr.kind = "empty"
        THEN Terminated(c, W_EXITCODE(ExitOk, 0))
        ELSE [c EXCEPT !.st = "running"]

\* The child's branch without the test of line 95: execvp(NULL, argv) fails
\* and the empty stage exits with 127 like an unresolvable one.
ChildBranchNoEmptyTest(pr) ==
  LET a == IF pr.role = "stage" /\ pr.in_fd # STDIN_FILENO
             THEN [pr EXCEPT !.stdin = pr.in_fd, !.fds = @ \ {pr.in_fd}]
             ELSE pr
      b == IF pr.role = "stage" /\ ~pr.last
             THEN [a EXCEPT !.stdout = pr.pipefd[2],
                            !.fds = @ \ {pr.pipefd[1], pr.pipefd[2]}]
             ELSE a
      c == IF pr.role = "prof" /\ pr.save
             THEN [b EXCEPT !.stdout = pr.pipefd[1], !.fds = @ \ {pr.pipefd[1]}]
             ELSE b
  IN  IF pr.kind \in {"empty", "nosuch"}
        THEN Terminated(c, W_EXITCODE(ExitNotFound, 0))
        ELSE [c EXCEPT !.st = "running"]

\* Lines 83-99 and 142-153: the child's branch up to execvp / exit.
ChildBranch(pr) ==
  LET a == IF pr.role = "stage" /\ pr.in_fd # STDIN_FILENO
             THEN [pr EXCEPT !.stdin = pr.in_fd, !.fds = @ \ {pr.in_fd}]
             ELSE pr
      b == IF pr.role = "stage" /\ ~pr.last
             THEN [a EXCEPT !.stdout = pr.pipefd[2],
                            !.fds = @ \ {pr.pipefd[1], pr.pipefd[2]}]
             ELSE a
      c == IF pr.role = "prof" /\ pr.save
             THEN [b EXCEPT !.stdout = pr.pipefd[1], !.fds = @ \ {pr.pipefd[1]}]
             ELSE b
      d == IF pr.role = "prof" /\ pr.timeout > 0
             THEN [c EXCEPT !.alarm = clock + pr.timeout * TicksPerSec]
             ELSE c
  IN  IF pr.role = "stage" /\ pr.kind = "empty"
        THEN Terminated(d, W_EXITCODE(ExitOk, 0))
      ELSE IF pr.kind = "nosuch"
        THEN Terminated(d, W_EXITCODE(ExitNotFound, 0))
      ELSE [d EXCEPT !.st = "running"]

ChildSetup(p) ==
  /\ procs[p].st = "forked"
  /\ procs' = [procs EXCEPT ![p] = ChildBranch(@)]
  /\ UNCHANGED <<pc, current_child, pfds, ncall, commands, i, in_fd, pipefd,
                 pids, status, ret, prof, clock, sent, ints, files, why>>
  /\ UNCHANGED <<line, cmdcopies>>

\* The processes and the interpreter (0) that hold descriptor d open.
Holders(d) ==
  (IF d \in pfds THEN {0} ELSE {}) \cup
  {p \in DOMAIN procs :
     d \in procs[p].fds \/ procs[p].stdin = d \/ procs[p].stdout = d}

\* read() on the standard input of p returns 0: it is the read end of a
\* channel whose write end nobody holds any more.
AtEOF(p) ==
  /\ procs[p].stdin.end = "r"
  /\ Holders(Fd(procs[p].stdin.call, procs[p].stdin.ch, "w")) = {}

\* The program ends on its own, with wait status st; a "filter" is a program
\* that reads its standard input to the end and ends only then.
ChildExit(p, st) ==
  /\ procs[p].st = "running"
  /\ procs[p].kind = "filter" => AtEOF(p)
  /\ procs' = [procs EXCEPT ![p] = Terminated(@, st)]
  /\ UNCHANGED <<pc, current_child, pfds, ncall, commands, i, in_fd, pipefd,
                 pids, status, ret, prof, clock, sent, ints, files, why>>
  /\ UNCHANGED <<line, cmdcopies>>

\* Line 149: the alarm armed in the profiled child expires; a program that
\* kept the default disposition is terminated by SIGALRM.
ChildAlarm(p) ==
  /\ procs[p].st = "running"
  /\ procs[p].alarm >= 0
  /\ clock >= procs[p].alarm
  /\ procs' = [procs EXCEPT ![p] = Terminated(@, W_EXITCODE(0, SIGALRM))]
  /\ UNCHANGED <<pc, current_child, pfds, ncall, commands, i, in_fd, pipefd,
                 pids, status, ret, prof, clock, sent, ints, files, why>>
  /\ UNCHANGED <<line, cmdcopies>>

\* The profiled program writes to its standard output, the capture file:
\* write() puts the data at the shared offset and advances it (the file is
\* not opened with O_APPEND).  The k-th write of the program carries k.
ChildWrite(p) ==
  /\ procs[p].st = "running"
  /\ procs[p].stdout = Fd(ncall, 0, "tmp")
  /\ ncall \in files.tmp
  /\ files.wrote < MaxOut
  /\ files' = [files EXCEPT
                 !.cap = IF files.off < Len(@)
                           THEN [@ EXCEPT ![files.off + 1] = files.wrote + 1]
                           ELSE Append(@, files.wrote + 1),
                 !.off = @ + 1,
                 !.wrote = @ + 1]
  /\ UNCHANGED <<pc, current_child, procs, pfds, ncall, commands, i, in_fd,
                 pipefd, pids, status, ret, prof, clock, sent, ints, why>>
  /\ UNCHANGED <<line, cmdcopies>>

\* ------------------------------------------------------------- main loop
\* Lines 286-291: the prompt is printed, then getline blocks in read().
Prompt ==
  /\ pc = "prompt"
  /\ pc' = "getline"
  /\ UNCHANGED <<current_child, procs, pfds, ncall, commands, i, in_fd, pipefd,
                 pids, status, ret, prof, clock, sent, ints, files, why>>
  /\ UNCHANGED <<line, cmdcopies>>

\* Lines 293-298: end of input.
ReadEOF ==
  /\ pc = "getline"
  /\ pc' = "done"
  /\ why' = "eof"
  /\ UNCHANGED <<current_child, procs, pfds, ncall, commands, i, in_fd, pipefd,
                 pids, status, ret, prof, clock, sent, ints, files>>
  /\ UNCHANGED <<line, cmdcopies>>

\* Lines 300-305 (blank line), 227-231 (cd), 234-237, 239, 245, 252, 259
\* (miprof usage errors): nothing is executed, the loop continues.
ReadNoExec ==
  /\ pc = "getline"
  /\ pc' = "prompt"
  /\ UNCHANGED <<current_child, procs, pfds, ncall, commands, i, in_fd, pipefd,
                 pids, status, ret, prof, clock, sent, ints, files, why>>
  /\ UNCHANGED <<line, cmdcopies>>

\* Lines 224-226: the exit command.
ReadExit ==
  /\ pc = "getline"
  /\ pc' = "done"
  /\ why' = "exit"
  /\ UNCHANGED <<current_child, procs, pfds, ncall, commands, i, in_fd, pipefd,
                 pids, status, ret, prof, clock, sent, ints, files>>
  /\ UNCHANGED <<line, cmdcopies>>

\* Lines 307-322 and 266-268: the line is a pipeline of n stages; one stage
\* goes through handle_single_command, whose argv[0] is not NULL.
ReadPipeline(cmds) ==
  /\ pc = "getline"
  /\ ncall < MaxCmds
  /\ Len(cmds) = 1 => cmds[1] # "empty"
  /\ ncall' = ncall + 1
  /\ commands' = cmds
  /\ i' = 0
  /\ in_fd' = STDIN_FILENO
  /\ pipefd' = <<NoFd, NoFd>>
  /\ pids' = <<>>
  /\ pc' = "ep_loop"
  /\ UNCHANGED <<current_child, procs, pfds, status, ret, prof, clock, sent,
                 ints, files, why>>
  /\ UNCHANGED <<line, cmdcopies>>

\* ------------------------------------------------------ execute_pipeline
n == Len(commands)

\* Lines 68-75: top of the spawn loop; pipe() for every stage but the last.
EpPipe(ok) ==
  /\ pc = "ep_loop"
  /\ IF i < n - 1
       THEN IF ok
              THEN /\ pipefd' = <<Fd(ncall, i, "r"), Fd(ncall, i, "w")>>
                   /\ pfds' = pfds \cup {Fd(ncall, i, "r"), Fd(ncall, i, "w")}
                   /\ pc' = "ep_fork"
                   /\ ret' = ret
              ELSE /\ pc' = "ep_ret"
                   /\ ret' = -1
                   /\ UNCHANGED <<pipefd, pfds>>
       ELSE /\ ok
            /\ pipefd' = <<NoFd, NoFd>>
            /\ pc' = "ep_fork"
            /\ UNCHANGED <<pfds, ret>>
  /\ UNCHANGED <<current_child, procs, ncall, commands, i, in_fd, pids, status,
                 prof, clock, sent, ints, files, why>>
  /\ UNCHANGED <<line, cmdcopies>>

\* fork() whose failure path cleans up: it kills the stages spawned so far
\* before returning.
EpForkKillsOnFailure(ok) ==
  /\ pc = "ep_fork"
  /\ IF ok
       THEN /\ procs' = Append(procs, NewProc("stage", commands[i + 1],
                                  ~(i < Len(commands) - 1), pfds, in_fd,
                                  pipefd, FALSE, 0))
            /\ pids' = Append(pids, Len(procs) + 1)
            /\ pc' = "ep_parent"
            /\ UNCHANGED <<ret, sent>>
       ELSE /\ pc' = "ep_ret"
            /\ ret' = -1
            /\ pids' = pids
            /\ IF pids # <<>>
                 THEN /\ sent' = Append(sent, KillRec(pids[1], SIGKILL, "cleanup"))
                      /\ procs' = Deliver(procs, pids[1], SIGKILL, TRUE)
                 ELSE UNCHANGED <<sent, procs>>
  /\ UNCHANGED <<current_child, pfds, ncall, commands, i, in_fd, pipefd, status,
                 prof, clock, ints, files, why>>
  /\ UNCHANGED <<line, cmdcopies>>

\* Lines 77-81: fork().
EpFork(ok) ==
  /\ pc = "ep_fork"
  /\ IF ok
       THEN /\ procs' = Append(procs, NewProc("stage", commands[i + 1],
                                  ~(i < n - 1), pfds, in_fd, pipefd, FALSE, 0))
            /\ pids' = Append(pids, Len(procs) + 1)
            /\ pc' = "ep_parent"
            /\ ret' = ret
       ELSE /\ pc' = "ep_ret"
            /\ ret' = -1
            /\ UNCHANGED <<procs, pids>>
  /\ UNCHANGED <<current_child, pfds, ncall, commands, i, in_fd, pipefd, status,
                 prof, clock, sent, ints, files, why>>
  /\ UNCHANGED <<line, cmdcopies>>

\* The parent's branch without close(pipefd[1]) of line 104.
EpParentKeepsWriteEnd ==
  /\ pc = "ep_parent"
  /\ LET closed1 == IF in_fd # STDIN_FILENO THEN pfds \ {in_fd} ELSE pfds
     IN  IF i < Len(commands) - 1
           THEN /\ pfds' = closed1
                /\ in_fd' = pipefd[1]
           ELSE /\ pfds' = closed1
                /\ in_fd' = in_fd
  /\ IF i + 1 < Len(commands)
       THEN /\ i' = i + 1
            /\ pc' = "ep_loop"
            /\ status' = status
       ELSE /\ i' = 0
            /\ status' = 0
            /\ pc' = "ep_setfg"
  /\ UNCHANGED <<current_child, procs, ncall, commands, pipefd, pids, ret,
                 prof, clock, sent, ints, files, why>>
  /\ UNCHANGED <<line, cmdcopies>>

\* Lines 100-108: the parent's branch, then ++i; line 111 when the loop ends.
EpParent ==
  /\ pc = "ep_parent"
  /\ LET closed1 == IF in_fd # STDIN_FILENO THEN pfds \ {in_fd} ELSE pfds
     IN  IF i < n - 1
           THEN /\ pfds' = closed1 \ {pipefd[2]}
                /\ in_fd' = pipefd[1]
           ELSE /\ pfds' = closed1
                /\ in_fd' = in_fd
  /\ IF i + 1 < n
       THEN /\ i' = i + 1
            /\ pc' = "ep_loop"
            /\ status' = status
       ELSE /\ i' = 0
            /\ status' = 0
            /\ pc' = "ep_setfg"
  /\ UNCHANGED <<current_child, procs, ncall, commands, pipefd, pids, ret,
                 prof, clock, sent, ints, files, why>>
  /\ UNCHANGED <<line, cmdcopies>>

\* Lines 112-113: the wait loop's test and the write of the Foreground Slot;
\* lines 116-117 when the loop ends.
EpSetFg ==
  /\ pc = "ep_setfg"
  /\ IF i < n
       THEN /\ current_child' = pids[i + 1]
            /\ pc' = "ep_waitpid"
            /\ ret' = ret
       ELSE /\ current_child' = 0
            /\ ret' = status
            /\ pc' = "ep_ret"
  /\ UNCHANGED <<procs, pfds, ncall, commands, i, in_fd, pipefd, pids, status,
                 prof, clock, sent, ints, files, why>>
  /\ UNCHANGED <<line, cmdcopies>>

\* Line 114: waitpid(pids[i], &status, 0) returns the pid of a terminated
\* child and reaps it.
EpWaitpid ==
  /\ pc = "ep_waitpid"
  /\ procs[pids[i + 1]].st = "zombie"
  /\ status' = procs[pids[i + 1]].status
  /\ procs' = [procs EXCEPT ![pids[i + 1]].st = "reaped"]
  /\ i' = i + 1
  /\ pc' = "ep_setfg"
  /\ UNCHANGED <<current_child, pfds, ncall, commands, in_fd, pipefd, pids,
                 ret, prof, clock, sent, ints, files, why>>
  /\ UNCHANGED <<line, cmdcopies>>

\* Lines 268-272 / 320-324: back in the main loop.
EpReturn ==
  /\ pc = "ep_ret"
  /\ pc' = "prompt"
  /\ commands' = <<>>
  /\ i' = 0
  /\ in_fd' = STDIN_FILENO
  /\ pipefd' = <<NoFd, NoFd>>
  /\ pids' = <<>>
  /\ status' = 0
  /\ ret' = 0
  /\ procs' = Forget(procs)
  /\ sent' = <<>>
  /\ UNCHANGED <<current_child, pfds, ncall, prof, clock, ints, files, why>>
  /\ UNCHANGED <<line, cmdcopies>>


\* ------------------------------------------------------- run_and_profile
\* Lines 233-257: miprof ejec (save 0, timeout 0), ejecsave (save 1, timeout
\* 0) and maxtiempo (save 0, timeout atoi(segs)); kind says whether argv[0]
\* resolves to a program.
ReadMiprof(save, secs, kind) ==
  /\ pc = "getline"
  /\ ncall < MaxCmds
  /\ save => secs = 0
  /\ kind # "empty"
  /\ ncall' = ncall + 1
  /\ commands' = <<kind>>
  /\ prof' = [NoProf EXCEPT !.save = save, !.timeout = secs]
  /\ pids' = <<>>
  /\ pc' = "rp_entry"
  /\ UNCHANGED <<current_child, procs, pfds, i, in_fd, pipefd, status, ret,
                 clock, sent, ints, files, why>>
  /\ UNCHANGED <<line, cmdcopies>>

MaxElapsed == (MaxTimeout + 1) * TicksPerSec

\* Lines 126-137: mkstemp when capturing, then the start timestamp.
RpMkstemp(ok) ==
  /\ pc = "rp_entry"
  /\ IF prof.save
       THEN IF ok
              THEN /\ prof' = [prof EXCEPT !.tmpfd = Fd(ncall, 0, "tmp"),
                                           !.start = clock]
                   /\ pfds' = pfds \cup {Fd(ncall, 0, "tmp")}
                   /\ files' = [files EXCEPT !.tmp = @ \cup {ncall},
                                              !.cap = <<>>, !.off = 0,
                                              !.wrote = 0]
                   /\ pc' = "rp_fork"
                   /\ ret' = ret
              ELSE /\ ret' = -1
                   /\ pc' = "rp_ret"
                   /\ UNCHANGED <<prof, pfds, files>>
       ELSE /\ ok
            /\ prof' = [prof EXCEPT !.start = clock]
            /\ pc' = "rp_fork"
            /\ UNCHANGED <<pfds, files, ret>>
  /\ UNCHANGED <<current_child, procs, ncall, commands, i, in_fd, pipefd, pids,
                 status, clock, sent, ints, why>>
  /\ UNCHANGED <<line, cmdcopies>>

\* Lines 139-140: fork().
RpFork(ok) ==
  /\ pc = "rp_fork"
  /\ IF ok
       THEN /\ procs' = Append(procs, NewProc("prof", commands[1], TRUE, pfds,
                           STDIN_FILENO, <<prof.tmpfd, NoFd>>, prof.save,
                           prof.timeout))
            /\ pids' = <<Len(procs) + 1>>
            /\ pc' = "rp_setfg"
            /\ ret' = ret
       ELSE /\ ret' = -1
            /\ pc' = "rp_ret"
            /\ UNCHANGED <<procs, pids>>
  /\ UNCHANGED <<current_child, pfds, ncall, commands, i, in_fd, pipefd, status,
                 prof, clock, sent, ints, files, why>>
  /\ UNCHANGED <<line, cmdcopies>>

\* Lines 156-161.
RpSetFg ==
  /\ pc = "rp_setfg"
  /\ current_child' = pids[1]
  /\ status' = 0
  /\ prof' = [prof EXCEPT !.waited = 0]
  /\ pc' = IF prof.timeout > 0 THEN "rp_poll" ELSE "rp_block"
  /\ UNCHANGED <<procs, pfds, ncall, commands, i, in_fd, pipefd, pids, ret,
                 clock, sent, ints, files, why>>
  /\ UNCHANGED <<line, cmdcopies>>

\* Lines 163-166 and 171: waitpid(pid, &status, WNOHANG), then the deadline
\* test; the call enters sleep(1) when neither ends the loop.  The child is
\* this process's own and unreaped, and WNOHANG never blocks, so the call
\* returns the pid or 0 and never -1.
RpPoll ==
  /\ pc = "rp_poll"
  /\ IF procs[pids[1]].st = "zombie"
       THEN /\ status' = procs[pids[1]].status
            /\ procs' = [procs EXCEPT ![pids[1]].st = "reaped"]
            /\ pc' = "rp_finish"
            /\ prof' = prof
       ELSE /\ pc' = IF prof.waited >= prof.timeout THEN "rp_kill" ELSE "rp_sleep"
            /\ prof' = [prof EXCEPT !.slept = 0]
            /\ UNCHANGED <<status, procs>>
  /\ UNCHANGED <<current_child, pfds, ncall, commands, i, in_fd, pipefd, pids,
                 ret, clock, sent, ints, files, why>>
  /\ UNCHANGED <<line, cmdcopies>>

\* Line 167: kill(pid, SIGKILL).
RpKill ==
  /\ pc = "rp_kill"
  /\ sent' = Append(sent, KillRec(pids[1], SIGKILL, "timeout"))
  /\ procs' = Deliver(procs, pids[1], SIGKILL, TRUE)
  /\ prof' = [prof EXCEPT !.killed = TRUE]
  /\ pc' = "rp_killwait"
  /\ UNCHANGED <<current_child, pfds, ncall, commands, i, in_fd, pipefd, pids,
                 status, ret, clock, ints, files, why>>
  /\ UNCHANGED <<line, cmdcopies>>

\* Line 168: the blocking waitpid after the kill reaps the child.
RpKillWait ==
  /\ pc = "rp_killwait"
  /\ procs[pids[1]].st = "zombie"
  /\ status' = procs[pids[1]].status
  /\ procs' = [procs EXCEPT ![pids[1]].st = "reaped"]
  /\ pc' = "rp_finish"
  /\ UNCHANGED <<current_child, pfds, ncall, commands, i, in_fd, pipefd, pids,
                 ret, prof, clock, sent, ints, files, why>>
  /\ UNCHANGED <<line, cmdcopies>>

\* Lines 171-172: sleep(1) ran its full second; waited++.
RpSleepDone ==
  /\ pc = "rp_sleep"
  /\ prof.slept = TicksPerSec
  /\ prof' = [prof EXCEPT !.waited = @ + 1, !.slept = 0]
  /\ pc' = "rp_poll"
  /\ UNCHANGED <<current_child, procs, pfds, ncall, commands, i, in_fd, pipefd,
                 pids, status, ret, clock, sent, ints, files, why>>
  /\ UNCHANGED <<line, cmdcopies>>

\* Line 175: the blocking waitpid of the no-timeout path reaps the child.
RpBlock ==
  /\ pc = "rp_block"
  /\ procs[pids[1]].st = "zombie"
  /\ status' = procs[pids[1]].status
  /\ procs' = [procs EXCEPT ![pids[1]].st = "reaped"]
  /\ pc' = "rp_finish"
  /\ UNCHANGED <<current_child, pfds, ncall, commands, i, in_fd, pipefd, pids,
                 ret, prof, clock, sent, ints, files, why>>
  /\ UNCHANGED <<line, cmdcopies>>

\* Wall-clock time passes while run_and_profile is suspended in sleep(1) or in
\* the blocking waitpid of line 175; every other step takes no time.
Tick ==
  /\ \/ pc = "rp_sleep" /\ prof.slept < TicksPerSec
     \/ pc = "rp_block" /\ clock - prof.start < MaxElapsed
  /\ clock' = clock + 1
  /\ prof' = IF pc = "rp_sleep" THEN [prof EXCEPT !.slept = @ + 1] ELSE prof
  /\ UNCHANGED <<pc, current_child, procs, pfds, ncall, commands, i, in_fd,
                 pipefd, pids, status, ret, sent, ints, files, why>>
  /\ UNCHANGED <<line, cmdcopies>>

\* Line 190: the exit status the summary shows.
ExitShown(st) == IF WIFEXITED(st) THEN WEXITSTATUS(st) ELSE -1

\* Lines 178-199: end timestamp and summary; then, when capturing, open of
\* the target file for appending (which may fail), the header line and the
\* rewind of the capture file; otherwise the summary on the terminal.
RpFinish(ok) ==
  /\ pc = "rp_finish"
  /\ prof' = [prof EXCEPT !.real = clock - prof.start,
                          !.exitshown = ExitShown(status),
                          !.before = files.target,
                          !.appended = prof.save /\ prof.tmpfd # NoFd /\ ok]
  /\ IF prof.save /\ prof.tmpfd # NoFd
       THEN IF ok
              THEN /\ files' = [files EXCEPT
                                  !.target = Append(@, Header(commands[1])),
                                  !.off = 0]
                   /\ pfds' = pfds
                   /\ pc' = "rp_copy"
              ELSE /\ files' = [files EXCEPT !.tmp = @ \ {ncall},
                                             !.cap = <<>>, !.off = 0]
                   /\ pfds' = pfds \ {prof.tmpfd}
                   /\ pc' = "rp_clear"
       ELSE /\ ok
            /\ pc' = "rp_clear"
            /\ UNCHANGED <<files, pfds>>
  /\ UNCHANGED <<current_child, procs, ncall, commands, i, in_fd, pipefd, pids,
                 status, ret, clock, sent, ints, why>>
  /\ UNCHANGED <<line, cmdcopies>>

\* Lines 200-208: one round of the copy loop, read() from the shared offset
\* of the capture file to its end and write() of what was read; when read()
\* returns 0, the summary and the blank line, then close and unlink.
RpCopy ==
  /\ pc = "rp_copy"
  /\ LET r == SubSeq(files.cap, files.off + 1, Len(files.cap))
     IN  IF r # <<>>
           THEN /\ files' = [files EXCEPT
                               !.target = @ \o [j \in 1..Len(r) |-> OutByte(r[j])],
                               !.off = Len(files.cap)]
                /\ pc' = pc
                /\ pfds' = pfds
           ELSE /\ files' = [files EXCEPT
                               !.target = @ \o <<Summary(commands[1],
                                                         prof.exitshown), Blank>>,
                               !.tmp = @ \ {ncall},
                               !.cap = <<>>, !.off = 0]
                /\ pfds' = pfds \ {prof.tmpfd}
                /\ pc' = "rp_clear"
  /\ UNCHANGED <<current_child, procs, ncall, commands, i, in_fd, pipefd, pids,
                 status, ret, prof, clock, sent, ints, why>>
  /\ UNCHANGED <<line, cmdcopies>>

\* run_and_profile without line 214: the slot keeps the child's pid.
RpClearKeepsSlot ==
  /\ pc = "rp_clear"
  /\ ret' = status
  /\ pc' = "rp_ret"
  /\ UNCHANGED <<current_child, procs, pfds, ncall, commands, i, in_fd, pipefd,
                 pids, status, prof, clock, sent, ints, files, why>>
  /\ UNCHANGED <<line, cmdcopies>>

\* Lines 214-215.
RpClear ==
  /\ pc = "rp_clear"
  /\ current_child' = 0
  /\ ret' = status
  /\ pc' = "rp_ret"
  /\ UNCHANGED <<procs, pfds, ncall, commands, i, in_fd, pipefd, pids, status,
                 prof, clock, sent, ints, files, why>>
  /\ UNCHANGED <<line, cmdcopies>>

\* Lines 242-262: back in handle_single_command and the main loop.  Only
\* differences of CLOCK_MONOTONIC readings are used (line 181) and no armed
\* alarm outlives the call, so the next call's clock starts from 0 again.
RpReturn ==
  /\ pc = "rp_ret"
  /\ pc' = "prompt"
  /\ commands' = <<>>
  /\ pids' = <<>>
  /\ status' = 0
  /\ ret' = 0
  /\ prof' = NoProf
  /\ procs' = Forget(procs)
  /\ sent' = <<>>
  /\ clock' = 0
  /\ files' = [files EXCEPT !.cap = <<>>, !.off = 0, !.wrote = 0]
  /\ UNCHANGED <<current_child, pfds, ncall, i, in_fd, pipefd, ints, why>>
  /\ UNCHANGED <<line, cmdcopies>>

\* ------------------------------------------------------------ Signal Relay
\* The handler with the test "current_child >= 0": with an empty slot it
\* calls kill(0, SIGINT), which signals the interpreter's process group.
sigint_handler_nonneg(dies) ==
  IF current_child >= 0
    THEN <<Deliver(procs, current_child, SIGINT, dies),
           Append(sent, KillRec(current_child, SIGINT, "relay"))>>
    ELSE <<procs, sent>>

\* Lines 21-26: the handler, run on the interpreter's stack at any point.
\* Returns <<procs, sent>> after the handler.
sigint_handler(dies) ==
  IF current_child > 0
    THEN <<Deliver(procs, current_child, SIGINT, dies),
           Append(sent, KillRec(current_child, SIGINT, "relay"))>>
    ELSE <<procs, sent>>

\* Lines 277-281: sa_flags = 0, so no SA_RESTART: the system call the handler
\* interrupted fails with EINTR.  read() inside getline (line 293) makes
\* getline return -1; waitpid (lines 114, 168, 175) returns -1 and leaves
\* status alone; sleep (line 171) returns early.
SigInt(dies) ==
  /\ pc # "done"
  /\ ints < MaxInts
  /\ ints' = ints + 1
  /\ procs' = sigint_handler(dies)[1]
  /\ sent' = sigint_handler(dies)[2]
  /\ pc' = CASE pc = "getline" -> "done"
             [] pc = "ep_waitpid" -> "ep_setfg"
             [] pc = "rp_block" -> "rp_finish"
             [] pc = "rp_killwait" -> "rp_finish"
             [] pc = "rp_sleep" -> "rp_poll"
             [] OTHER -> pc
  /\ why' = IF pc = "getline" THEN "eintr" ELSE why
  /\ i' = IF pc = "ep_waitpid" THEN i + 1 ELSE i
  /\ prof' = IF pc = "rp_sleep"
               THEN [prof EXCEPT !.waited = @ + 1, !.slept = 0]
               ELSE prof
  /\ UNCHANGED <<current_child, pfds, ncall, commands, in_fd, pipefd, pids,
                 status, ret, clock, files>>
  /\ UNCHANGED <<line, cmdcopies>>

\* ------------------------------------------------------------------ Spec
Pipelines == UNION {[1..k -> StageKinds] : k \in 1..MaxStages}

Next ==
  \/ Prompt
  \/ ReadEOF
  \/ ReadNoExec
  \/ ReadExit
  \/ \E cmds \in Pipelines : ReadPipeline(cmds)
  \/ \E save \in BOOLEAN, secs \in 0..MaxTimeout, kind \in {"prog", "nosuch"} :
       ReadMiprof(save, secs, kind)
  \/ \E ok \in BOOLEAN : EpPipe(ok)
  \/ \E ok \in BOOLEAN : EpFork(ok)
  \/ EpParent
  \/ EpSetFg
  \/ EpWaitpid
  \/ EpReturn
  \/ \E ok \in BOOLEAN : RpMkstemp(ok)
  \/ \E ok \in BOOLEAN : RpFork(ok)
  \/ RpSetFg
  \/ RpPoll
  \/ RpKill
  \/ RpKillWait
  \/ RpSleepDone
  \/ RpBlock
  \/ Tick
  \/ \E ok \in BOOLEAN : RpFinish(ok)
  \/ RpCopy
  \/ RpClear
  \/ RpReturn
  \/ \E dies \in BOOLEAN : SigInt(dies)
  \/ \E p \in DOMAIN procs : ChildSetup(p)
  \/ \E p \in DOMAIN procs, st \in ProgStatuses : ChildExit(p, st)
  \/ \E p \in DOMAIN procs : ChildAlarm(p)

Spec == Init /\ [][Next]_vars


\* ================================================================ claims
FullySpawned == Len(pids) = n
Live == {"forked", "running", "zombie"}

\* C1: when execute_pipeline returns, on every return path, no channel
\* descriptor created during that call is still open in the interpreter.
C1_NoChannelLeakAtReturn ==
  pc = "ep_ret" => \A d \in pfds : ~(d.call = ncall /\ d.end \in {"r", "w"})

\* C2: whenever the Foreground Slot holds a pid, that process has been
\* spawned and has not yet been reaped.
C2_SlotNamesUnreapedChild ==
  current_child > 0 => StateOf(procs, current_child) \in Live

\* C3: execute_pipeline does not return from a fully spawned pipeline
\* before every stage has been reaped by its wait.
C3_AllStagesReapedAtReturn ==
  (pc = "ep_ret" /\ FullySpawned) =>
     \A k \in 1..n : procs[pids[k]].st = "reaped"

\* C4: the value execute_pipeline returns for a fully spawned pipeline is
\* the termination status of its last stage.
C4_ReturnsLastStageStatus ==
  (pc = "ep_ret" /\ FullySpawned) =>
     /\ procs[pids[n]].st \in {"zombie", "reaped"}
     /\ ret = procs[pids[n]].status

\* C5: with a timeout of T seconds the interpreter sends SIGKILL only when
\* at least T whole seconds have passed since the wait began.
C5_KillNotBeforeDeadline ==
  \A k \in 1..Len(sent) :
     sent[k].by = "timeout" =>
        sent[k].at - prof.start >= prof.timeout * TicksPerSec

\* C6: when the timeout kills the child, run_and_profile has slept at most
\* T times, the child is reaped, and the elapsed wall time it reports lies
\* between T seconds and T seconds plus one poll interval.
C6_TimeoutElapsedWindow ==
  (pc = "rp_clear" /\ prof.killed) =>
     /\ prof.waited <= prof.timeout
     /\ procs[pids[1]].st = "reaped"
     /\ prof.real >= prof.timeout * TicksPerSec
     /\ prof.real <= (prof.timeout + 1) * TicksPerSec

\* C7: the result of a profile call with a timeout shows forced termination
\* (the only such indication in the summary is the exit status -1) if and
\* only if the interpreter killed the child at the deadline.
C7_ForcedShownIffTimeoutFired ==
  (pc = "rp_clear" /\ prof.timeout > 0) =>
     ((prof.exitshown = -1) <=> prof.killed)

\* C8: an interrupt delivered to the interpreter makes the relay send
\* SIGINT to exactly the process in the Foreground Slot when the slot is
\* not none, and send nothing when it is none; no other process is touched
\* and the target pid is positive.
C8_RelaySignalsSlotOnly ==
  [][ints' # ints =>
       /\ IF current_child = 0
            THEN sent' = sent
            ELSE /\ Len(sent') = Len(sent) + 1
                 /\ SubSeq(sent', 1, Len(sent)) = sent
                 /\ sent'[Len(sent')].to = current_child
                 /\ sent'[Len(sent')].to > 0
                 /\ sent'[Len(sent')].sig = SIGINT
       /\ \A p \in DOMAIN procs : p # current_child => procs'[p] = procs[p]
    ]_vars

\* C8 witness: the relay has signalled the stage being waited for while a
\* sibling stage of the same pipeline is alive and untouched.
C8_Witness ==
  /\ pc \in {"ep_setfg", "ep_waitpid"}
  /\ Len(pids) = 2
  /\ Len(sent) = 1
  /\ sent[1].by = "relay"
  /\ sent[1].to = pids[1]
  /\ procs[pids[1]].status = W_EXITCODE(0, SIGINT)
  /\ procs[pids[2]].st = "running"

\* C9: the main loop ends only on the exit command or on end of input.
C9_SessionEndsOnlyOnExitOrEOF ==
  pc = "done" => why \in {"exit", "eof"}

\* C10: the Foreground Slot is none when execute_pipeline or
\* run_and_profile is entered and none whenever either returns.
C10_SlotNoneAtEntryAndReturn ==
  (\/ pc = "ep_loop" /\ i = 0
   \/ pc = "rp_entry"
   \/ pc = "ep_ret"
   \/ pc = "rp_ret") => current_child = 0

\* C10 witness: run_and_profile returns after the timeout killed the child,
\* the slot having held the child's pid when an interrupt was relayed.
C10_Witness ==
  /\ pc = "rp_ret"
  /\ prof.killed
  /\ \E k \in 1..Len(sent) : sent[k].by = "relay" /\ sent[k].to = pids[1]


\* C13: a child whose program resolution fails terminates with exit code
\* 127 in its own branch: the step that ends it spawns nothing, waits for
\* nothing, writes no file and leaves the Foreground Slot and every local
\* of the interpreter alone.
C13_ResolutionFailureExits127 ==
  [][\A p \in DOMAIN procs :
        (/\ procs[p].kind = "nosuch"
         /\ procs[p].st = "forked"
         /\ procs'[p].st \in {"running", "zombie", "reaped"}
         /\ sent' = sent)
        => /\ procs'[p].st = "zombie"
           /\ procs'[p].status = W_EXITCODE(ExitNotFound, 0)
           /\ Len(procs') = Len(procs)
           /\ UNCHANGED <<pc, current_child, pids, status, ret, files, pfds, i>>
    ]_vars

\* C13 witness: the unresolvable last stage of a pipeline has exited with
\* 127 and the interpreter has reaped it and returns that status.
C13_Witness ==
  /\ pc = "ep_ret"
  /\ Len(pids) = 2
  /\ commands[2] = "nosuch"
  /\ procs[pids[2]].st = "reaped"
  /\ ret = W_EXITCODE(ExitNotFound, 0)

\* C16 (as claimed): the write end of the channel between stage i-1 and
\* stage i is still open in the interpreter when stage i is forked.
C16_WriteEndOpenAtNextFork ==
  (pc = "ep_fork" /\ i >= 1) => Fd(ncall, i - 1, "w") \in pfds

\* C16 (amended): the interpreter holds the write end of the channel between
\* stage i and stage i+1 when it forks stage i, its writer, and has closed
\* it before it creates the next channel and forks stage i+1.
C16_WriteEndClosedAfterWriterFork ==
  /\ (pc = "ep_parent" /\ i < n - 1) => Fd(ncall, i, "w") \in pfds
  /\ (pc \in {"ep_loop", "ep_fork"} /\ i >= 1) => Fd(ncall, i - 1, "w") \notin pfds

\* C16 witness: the second stage is about to be forked.
C16_Witness ==
  pc = "ep_fork" /\ i = 1 /\ Len(pids) = 1

\* C17: the exit status of the summary is the child's exit code when the
\* child was reaped after a normal exit, and -1 in every other case.
C17_ExitShownIsExitCodeOrSentinel ==
  pc = "rp_clear" =>
     prof.exitshown =
        IF procs[pids[1]].st = "reaped" /\ WIFEXITED(procs[pids[1]].status)
          THEN WEXITSTATUS(procs[pids[1]].status)
          ELSE -1

\* C18: when pipe() or fork() fails at stage i, execute_pipeline returns
\* with exactly the stages 0..i-1 spawned, none of them waited for or
\* signalled, and the Foreground Slot untouched.
C18_FailureAbortsSpawning ==
  (pc = "ep_ret" /\ ret = -1) =>
     /\ i < n
     /\ Len(pids) = i
     /\ \A k \in 1..Len(pids) : procs[pids[k]].st \in Live
     /\ sent = <<>>
     /\ current_child = 0

\* C18 witness: fork() failed for the second stage while the first one runs.
C18_Witness ==
  /\ pc = "ep_ret"
  /\ ret = -1
  /\ Len(pids) = 1
  /\ procs[pids[1]].st = "running"

\* C19: a stage with an empty argument vector never runs a program and
\* ends with status 0; it keeps its position: every stage is spawned and
\* waited for, and the stage after it, wired to the read end of its channel,
\* finds no writer left on it once the empty stage has ended.
C19_EmptyStageIsNoOp ==
  /\ pc \in {"ep_setfg", "ep_waitpid"} => Len(pids) = n
  /\ \A k \in 1..Len(pids) :
        commands[k] = "empty" =>
           /\ procs[pids[k]].st \in {"forked", "zombie", "reaped"}
           /\ procs[pids[k]].st \in {"zombie", "reaped"} =>
                /\ procs[pids[k]].status = W_EXITCODE(ExitOk, 0)
                /\ k < Len(pids) => Holders(Fd(ncall, k - 1, "w")) = {}
           /\ (k < Len(pids) /\ procs[pids[k + 1]].st = "running") =>
                procs[pids[k + 1]].stdin = Fd(ncall, k - 1, "r")

\* C19 witness: the pipeline "<empty> | prog" has been spawned and reaped in
\* full, the second stage having run its program.
C19_Witness ==
  /\ pc = "ep_ret"
  /\ Len(pids) = 2
  /\ commands[1] = "empty"
  /\ procs[pids[1]].st = "reaped"
  /\ procs[pids[2]].st = "reaped"
  /\ ret = W_EXITCODE(1, 0)

\* C20: when a capturing run_and_profile returns, the temporary capture
\* file it created is closed and deleted.
C20_CaptureFileGoneAtReturn ==
  pc = "rp_ret" =>
     /\ ncall \notin files.tmp
     /\ Fd(ncall, 0, "tmp") \notin pfds


\* ------------------------------------------ the session after a failed call
\* The interpreter back at its prompt after an earlier pipeline, counted as
\* call 0, whose fork() failed for its first stage: line 80 returned with
\* both ends of the channel created at line 71 still open (see C1).
InitLeaked ==
  /\ pc = "prompt"
  /\ current_child = 0
  /\ procs = <<>>
  /\ pfds = {Fd(0, 0, "r"), Fd(0, 0, "w")}
  /\ ncall = 0
  /\ commands = <<>>
  /\ i = 0
  /\ in_fd = STDIN_FILENO
  /\ pipefd = <<NoFd, NoFd>>
  /\ pids = <<>>
  /\ status = 0
  /\ ret = 0
  /\ prof = NoProf
  /\ clock = 0
  /\ sent = <<>>
  /\ ints = 0
  /\ files = NoFiles
  /\ why = "running"
  /\ line = <<>>
  /\ cmdcopies = <<>>

SpecLeaked == InitLeaked /\ [][Next]_vars

\* Every stage of the current pipeline has been spawned and has left its
\* branch of fork.
AllStagesExecuted ==
  /\ pc \in {"ep_setfg", "ep_waitpid", "ep_ret"}
  /\ FullySpawned
  /\ \A k \in 1..Len(pids) : procs[pids[k]].st # "forked"

\* C15: a stage that executes its program holds no channel descriptor other
\* than its redirected standard input and standard output; once all stages
\* are spawned and executing, the write end of channel i is open only in
\* stage i, the read end only in stage i+1, and the interpreter holds
\* neither.
C15_ChannelEndOwnership ==
  /\ \A p \in DOMAIN procs :
        (procs[p].role = "stage" /\ procs[p].st = "running") =>
           \A d \in procs[p].fds : d.end \notin {"r", "w"}
  /\ AllStagesExecuted =>
        \A k \in 1..(Len(pids) - 1) :
           /\ Holders(Fd(ncall, k - 1, "w")) \subseteq {pids[k]}
           /\ Holders(Fd(ncall, k - 1, "r")) \subseteq {pids[k + 1]}


\* ------------------------------------------- pipelines under fair scheduling
\* Pipelines whose first stage ends on its own and whose later stages may be
\* filters (an unresolvable stage ends on its own like a program).
LivePipelines ==
  {c \in UNION {[1..k -> {"prog", "empty", "filter"}] : k \in 1..MaxStages} :
     c[1] # "filter"}

EpStep ==
  \/ \E ok \in BOOLEAN : EpPipe(ok)
  \/ \E ok \in BOOLEAN : EpFork(ok)
  \/ EpParent
  \/ EpSetFg
  \/ EpWaitpid

NextLive ==
  \/ Prompt
  \/ \E cmds \in LivePipelines : ReadPipeline(cmds)
  \/ EpStep
  \/ EpReturn
  \/ \E dies \in BOOLEAN : SigInt(dies)
  \/ \E p \in DOMAIN procs : ChildSetup(p)
  \/ \E p \in DOMAIN procs : ChildExit(p, W_EXITCODE(ExitOk, 0))

\* The interpreter runs while it is not blocked, every child is scheduled,
\* and every program ends when it can (a filter: at end of input).
FairLive ==
  /\ WF_vars(EpStep)
  /\ \A p \in 1..(MaxCmds * MaxStages) :
        /\ WF_vars(p \in DOMAIN procs /\ ChildSetup(p))
        /\ WF_vars(p \in DOMAIN procs /\ ChildExit(p, W_EXITCODE(ExitOk, 0)))

SpecLive == Init /\ [][NextLive]_vars /\ FairLive

\* C14: when every stage's program ends once its standard input is at end
\* of stream (the first stage on its own), execute_pipeline, once entered,
\* eventually returns.
C14_ExecuteEventuallyReturns ==
  (pc \in {"ep_loop", "ep_fork", "ep_parent", "ep_setfg", "ep_waitpid"})
     ~> (pc = "ep_ret")

\* C14 witness: "prog | filter" has returned after the filter was reaped,
\* having ended at the end of its input.
C14_Witness ==
  /\ pc = "ep_ret"
  /\ Len(pids) = 2
  /\ commands[2] = "filter"
  /\ procs[pids[1]].st = "reaped"
  /\ procs[pids[2]].st = "reaped"
  /\ WIFEXITED(procs[pids[2]].status)


\* ------------------------------------------------- capturing profile calls
\* The target file may exist before the session.
InitProf ==
  /\ pc = "prompt"
  /\ current_child = 0
  /\ procs = <<>>
  /\ pfds = {}
  /\ ncall = 0
  /\ commands = <<>>
  /\ i = 0
  /\ in_fd = STDIN_FILENO
  /\ pipefd = <<NoFd, NoFd>>
  /\ pids = <<>>
  /\ status = 0
  /\ ret = 0
  /\ prof = NoProf
  /\ clock = 0
  /\ sent = <<>>
  /\ ints = 0
  /\ files \in {NoFiles, [NoFiles EXCEPT !.target = <<Old>>]}
  /\ why = "running"
  /\ line = <<>>
  /\ cmdcopies = <<>>

NextProf ==
  \/ Prompt
  \/ \E kind \in {"prog", "nosuch"} : ReadMiprof(TRUE, 0, kind)
  \/ \E ok \in BOOLEAN : RpMkstemp(ok)
  \/ \E ok \in BOOLEAN : RpFork(ok)
  \/ RpSetFg
  \/ RpBlock
  \/ \E ok \in BOOLEAN : RpFinish(ok)
  \/ RpCopy
  \/ RpClear
  \/ RpReturn
  \/ \E dies \in BOOLEAN : SigInt(dies)
  \/ \E p \in DOMAIN procs : ChildSetup(p)
  \/ \E p \in DOMAIN procs, st \in ProgStatuses : ChildExit(p, st)
  \/ \E p \in DOMAIN procs : ChildWrite(p)

SpecProf == InitProf /\ [][NextProf]_vars

\* C11: an ejecsave call that could open its target leaves it equal to its
\* previous content followed by exactly one block: the header naming the
\* command, the output the command wrote, unchanged and in order (as far as
\* it was captured), the summary, a blank line.
C11_AppendsOneVerbatimBlock ==
  (pc = "rp_clear" /\ prof.appended) =>
     \E k \in 0..files.wrote :
        files.target =
           prof.before \o <<Header(commands[1])>>
                       \o [j \in 1..k |-> OutByte(j)]
                       \o <<Summary(commands[1], prof.exitshown), Blank>>

\* The append alone: previous content kept, then a header, output items, the
\* summary and a blank line.
AppendsOneBlock ==
  (pc = "rp_clear" /\ prof.appended) =>
     LET m == Len(prof.before)
         t == files.target
     IN  /\ Len(t) >= m + 3
         /\ SubSeq(t, 1, m) = prof.before
         /\ t[m + 1] = Header(commands[1])
         /\ \A j \in (m + 2)..(Len(t) - 2) : t[j].t = "out"
         /\ t[Len(t) - 1] = Summary(commands[1], prof.exitshown)
         /\ t[Len(t)] = Blank


\* ---------------------------------------------------------- the tokenizer
\* Strings are sequences of characters.
Whitespace == {" ", "\t", "\n"}
Alphabet == {"a", "b", " ", "|"}
Lines == UNION {[1..k -> Alphabet] : k \in 0..MaxLen}

\* Lines 29-34: trim.  The first loop skips leading whitespace; the second
\* cuts trailing whitespace while end > s.
RECURSIVE SkipLeading(_)
SkipLeading(s) ==
  IF s # <<>> /\ Head(s) \in Whitespace THEN SkipLeading(Tail(s)) ELSE s

RECURSIVE CutTrailing(_)
CutTrailing(s) ==
  IF Len(s) > 1 /\ s[Len(s)] \in Whitespace
    THEN CutTrailing(SubSeq(s, 1, Len(s) - 1))
    ELSE s

trim(s) == CutTrailing(SkipLeading(s))

\* strtok_r(s, "|", &saveptr): skips the delimiters at the start; no
\* character left: NULL; otherwise the token runs to the next delimiter,
\* which is overwritten with '\0', and saveptr points behind it.
RECURSIVE SkipDelimiters(_)
SkipDelimiters(s) ==
  IF s # <<>> /\ Head(s) = "|" THEN SkipDelimiters(Tail(s)) ELSE s

RECURSIVE TokenLength(_)
TokenLength(s) ==
  IF s = <<>> \/ Head(s) = "|" THEN 0 ELSE 1 + TokenLength(Tail(s))

strtok_r(s) ==
  LET t == SkipDelimiters(s)
  IN  IF t = <<>>
        THEN [tok |-> <<>>, null |-> TRUE, saveptr |-> <<>>]
        ELSE [tok |-> SubSeq(t, 1, TokenLength(t)), null |-> FALSE,
              saveptr |-> SubSeq(t, TokenLength(t) + 2, Len(t))]

\* Lines 37-46: split_pipeline.
RECURSIVE SplitLoop(_, _)
SplitLoop(saveptr, cmds) ==
  LET r == strtok_r(saveptr)
  IN  IF ~r.null /\ Len(cmds) < MAX_COMMANDS
        THEN SplitLoop(r.saveptr, Append(cmds, trim(r.tok)))
        ELSE cmds

split_pipeline(l) == SplitLoop(l, <<>>)

\* A line has been read.
InitSplit ==
  /\ pc = "sp_line"
  /\ current_child = 0
  /\ procs = <<>>
  /\ pfds = {}
  /\ ncall = 0
  /\ commands = <<>>
  /\ i = 0
  /\ in_fd = STDIN_FILENO
  /\ pipefd = <<NoFd, NoFd>>
  /\ pids = <<>>
  /\ status = 0
  /\ ret = 0
  /\ prof = NoProf
  /\ clock = 0
  /\ sent = <<>>
  /\ ints = 0
  /\ files = NoFiles
  /\ why = "running"
  /\ line \in Lines
  /\ cmdcopies = <<>>

\* Lines 303-305: the line is trimmed; an empty one is skipped.
MainTrim ==
  /\ pc = "sp_line"
  /\ line' = trim(line)
  /\ pc' = IF trim(line) = <<>> THEN "sp_skip" ELSE "sp_split"
  /\ UNCHANGED <<current_child, procs, pfds, ncall, commands, i, in_fd, pipefd,
                 pids, status, ret, prof, clock, sent, ints, files, why,
                 cmdcopies>>

\* Lines 308-318: the line is split into the stage texts.
MainSplit ==
  /\ pc = "sp_split"
  /\ cmdcopies' = split_pipeline(line)
  /\ pc' = "sp_done"
  /\ UNCHANGED <<current_child, procs, pfds, ncall, commands, i, in_fd, pipefd,
                 pids, status, ret, prof, clock, sent, ints, files, why, line>>

NextSplit ==
  \/ MainTrim
  \/ MainSplit

SpecSplit == InitSplit /\ [][NextSplit]_vars

\* The stages the claim describes: the texts between consecutive delimiters,
\* each trimmed, one more than there are delimiters.
RECURSIVE Segments(_)
Segments(s) ==
  IF TokenLength(s) = Len(s)
    THEN <<trim(s)>>
    ELSE <<trim(SubSeq(s, 1, TokenLength(s)))>>
           \o Segments(SubSeq(s, TokenLength(s) + 2, Len(s)))

\* C12: split_pipeline returns, for a line with k delimiters, exactly the
\* k + 1 trimmed texts between them, in order, an empty segment as an empty
\* string in its position.
C12_SplitKeepsEmptyStages ==
  pc = "sp_done" => cmdcopies = Segments(line)

====
